---------------------------- MODULE Spec2Model ----------------------------
(***************************************************************************)
(* claude-mcp-server: the request-to-subprocess translation layer          *)
(* (src/src/claude-service.ts) and the tool dispatch in front of it        *)
(* (handlers.ts, kept as src/unnamed/part_000).                            *)
(*                                                                         *)
(* Texts are sequences of one-character strings, so that quoting, shell    *)
(* word splitting, JSON decoding and trimming are computed character by    *)
(* character, as the code and the programs it talks to compute them.       *)
(***************************************************************************)
EXTENDS Naturals, Sequences, FiniteSets, Bags, TLC

(***************************************************************************)
(* Characters                                                              *)
(***************************************************************************)
DQ == "\""
SQ == "'"
BS == "\\"
NL == "\n"
SP == " "
\* U+00A0, no-break space: white space for String.prototype.trim, but not
\* one of the four white space characters of the JSON grammar.
NBSP == "nbsp"

\* An optional text (string | undefined | null).
Null == [some |-> FALSE, val |-> <<>>]
Some(s) == [some |-> TRUE, val |-> s]
\* JavaScript truthiness of an optional text: the empty text is falsy.
Truthy(o) == o.some /\ o.val # <<>>

\* a.includes(b) / toContain
Contains(a, b) ==
  \E i \in 0..(Len(a) - Len(b)) : SubSeq(a, i + 1, i + Len(b)) = b

(***************************************************************************)
(* JSON.stringify of a text: the quoted literal that the two operations    *)
(* put in the command line.                                                *)
(***************************************************************************)
QuoteChar(c) ==
  CASE c = DQ -> <<BS, DQ>>
    [] c = BS -> <<BS, BS>>
    [] c = NL -> <<BS, "n">>
    [] OTHER -> <<c>>

RECURSIVE QuoteChars(_)
QuoteChars(s) ==
  IF s = <<>> THEN <<>> ELSE QuoteChar(Head(s)) \o QuoteChars(Tail(s))

JSON_stringify(s) == <<DQ>> \o QuoteChars(s) \o <<DQ>>

(***************************************************************************)
(* Fixed pieces of the command lines.                                      *)
(***************************************************************************)
CLAUDE_P == <<"c","l","a","u","d","e"," ","-","p"," ">>
CLAUDE_C_P == <<"c","l","a","u","d","e"," ","-","c"," ","-","p"," ">>
CLAUDE_R == <<"c","l","a","u","d","e"," ","-","r"," ">>
DASH_P == <<" ","-","p"," ">>
OUTPUT_FORMAT_JSON ==
  <<" ","-","-","o","u","t","p","u","t","-","f","o","r","m","a","t"," ","j","s","o","n">>
MODEL_FLAG == <<" ","-","-","m","o","d","e","l"," ">>
SYSTEM_PROMPT_FLAG ==
  <<" ","-","-","s","y","s","t","e","m","-","p","r","o","m","p","t"," ">>
APPEND_SYSTEM_PROMPT_FLAG ==
  <<" ","-","-","a","p","p","e","n","d","-","s","y","s","t","e","m","-","p","r","o","m","p","t"," ">>
STDIN_REDIRECT == <<" ","<"," ","/","d","e","v","/","n","u","l","l">>

\* ClaudeOptions: each field an optional text.
NoOptions == [model |-> Null, systemPrompt |-> Null, cwd |-> Null]

\* The model name quoted like the prompts.
ModelPart_Quoted(options) ==
  IF Truthy(options.model) THEN MODEL_FLAG \o JSON_stringify(options.model.val) ELSE <<>>

ModelPart(options) ==
  IF Truthy(options.model) THEN MODEL_FLAG \o options.model.val ELSE <<>>

StartSystemPromptPart(options) ==
  IF Truthy(options.systemPrompt)
    THEN SYSTEM_PROMPT_FLAG \o JSON_stringify(options.systemPrompt.val)
    ELSE <<>>

\* A continuation that replaces the system prompt, as a start does.
ReplySystemPromptPart_Replace(options) ==
  IF Truthy(options.systemPrompt)
    THEN SYSTEM_PROMPT_FLAG \o JSON_stringify(options.systemPrompt.val)
    ELSE <<>>

ReplySystemPromptPart(options) ==
  IF Truthy(options.systemPrompt)
    THEN APPEND_SYSTEM_PROMPT_FLAG \o JSON_stringify(options.systemPrompt.val)
    ELSE <<>>

\* executeClaude: the command handed to the executor.
StartCommand(prompt, options) ==
  CLAUDE_P \o JSON_stringify(prompt) \o OUTPUT_FORMAT_JSON
    \o ModelPart(options) \o StartSystemPromptPart(options)

\* A continuation that resumes the latest conversation whatever it is given.
ReplyBase_AlwaysLatest(prompt, sessionId) ==
  CLAUDE_C_P \o JSON_stringify(prompt) \o OUTPUT_FORMAT_JSON

ReplyBase(prompt, sessionId) ==
  IF Truthy(sessionId)
    THEN CLAUDE_R \o sessionId.val \o DASH_P \o JSON_stringify(prompt)
           \o OUTPUT_FORMAT_JSON
    ELSE CLAUDE_C_P \o JSON_stringify(prompt) \o OUTPUT_FORMAT_JSON

\* executeClaudeReply: the command handed to the executor.
ReplyCommand(prompt, sessionId, options) ==
  ReplyBase(prompt, sessionId)
    \o ModelPart(options) \o ReplySystemPromptPart(options)

\* defaultExecFn: the command line that /bin/bash runs.
FullCmd(cmd) == cmd \o STDIN_REDIRECT

(***************************************************************************)
(* /bin/bash word splitting of a command line (quoting rules of bash(1)):  *)
(* blanks separate words; inside double quotes a backslash quotes only     *)
(* $ ` " \ and newline (backslash-newline is removed), and stays itself    *)
(* before any other character; single quotes keep everything; an unquoted  *)
(* backslash quotes the next character; < redirects standard input from    *)
(* the word that follows.  Parameter and command substitution ($, `) are   *)
(* outside the alphabet of this model.                                     *)
(*                                                                         *)
(* A word is [text, quoted, redir]: its text after quote removal, whether  *)
(* any part of it was quoted, whether it is the target of a redirection.   *)
(***************************************************************************)
NoWord == [open |-> FALSE, text |-> <<>>, quoted |-> FALSE, redir |-> FALSE]

Flush(w, acc) ==
  IF w.open
    THEN Append(acc, [text |-> w.text, quoted |-> w.quoted, redir |-> w.redir])
    ELSE acc

Put(w, c, q) ==
  [open |-> TRUE, text |-> w.text \o c, quoted |-> w.quoted \/ q, redir |-> w.redir]

\* The lexer's state: its quoting mode, the word being read, the words read.
LexStart == [mode |-> "plain", w |-> NoWord, acc |-> <<>>]

InMode(st, mode) == [st EXCEPT !.mode = mode]
PutIn(st, mode, c, q) == [st EXCEPT !.mode = mode, !.w = Put(st.w, c, q)]

\* One character of the command line.
LexStep(st, c) ==
  CASE st.mode = "dq" ->
         IF c = DQ THEN InMode(st, "plain")
         ELSE IF c = BS THEN InMode(st, "dq_bs")
         ELSE PutIn(st, "dq", <<c>>, TRUE)
    [] st.mode = "dq_bs" ->
         IF c \in {DQ, BS} THEN PutIn(st, "dq", <<c>>, TRUE)
         ELSE IF c = NL THEN InMode(st, "dq")
         ELSE PutIn(st, "dq", <<BS, c>>, TRUE)
    [] st.mode = "sq" ->
         IF c = SQ THEN InMode(st, "plain") ELSE PutIn(st, "sq", <<c>>, TRUE)
    [] st.mode = "plain_bs" ->
         IF c = NL THEN InMode(st, "plain") ELSE PutIn(st, "plain", <<c>>, TRUE)
    [] OTHER ->
         IF c \in {SP, NL}
           THEN [mode |-> "plain", w |-> IF st.w.open THEN NoWord ELSE st.w,
                 acc |-> Flush(st.w, st.acc)]
         ELSE IF c = "<"
           THEN [mode |-> "plain", w |-> [NoWord EXCEPT !.redir = TRUE],
                 acc |-> Flush(st.w, st.acc)]
         ELSE IF c = DQ THEN PutIn(st, "dq", <<>>, TRUE)
         ELSE IF c = SQ THEN PutIn(st, "sq", <<>>, TRUE)
         ELSE IF c = BS THEN InMode(st, "plain_bs")
         ELSE PutIn(st, "plain", <<c>>, FALSE)

LexModes == {"plain", "plain_bs", "dq", "dq_bs", "sq"}

\* The lexer run over s[lo..hi], by halves; the left half is read to its end
\* (its mode is known) before the right half is entered.
RECURSIVE BashLex(_, _, _, _)
BashLex(s, lo, hi, st) ==
  IF lo > hi THEN st
  ELSE IF lo = hi THEN LexStep(st, s[lo])
  ELSE LET mid == (lo + hi) \div 2
           left == BashLex(s, lo, mid, st)
       IN IF left.mode \in LexModes THEN BashLex(s, mid + 1, hi, left) ELSE left

BashWords(cmdline) ==
  LET end == BashLex(cmdline, 1, Len(cmdline), LexStart) IN Flush(end.w, end.acc)

IsArg(w) == ~w.redir

\* The argument vector the subprocess receives.
Argv(cmdline) == SelectSeq(BashWords(cmdline), IsArg)

\* The option words of a command line: a flag is an unquoted word.
F_C == <<"-","c">>
F_R == <<"-","r">>
F_P == <<"-","p">>
F_MODEL == <<"-","-","m","o","d","e","l">>
F_SYSTEM_PROMPT == <<"-","-","s","y","s","t","e","m","-","p","r","o","m","p","t">>
F_APPEND_SYSTEM_PROMPT ==
  <<"-","-","a","p","p","e","n","d","-","s","y","s","t","e","m","-","p","r","o","m","p","t">>

IsFlag(w, f) == w.text = f /\ ~w.quoted /\ ~w.redir
HasFlag(words, f) == \E i \in DOMAIN words : IsFlag(words[i], f)
\* The flag, followed by a word that reads v.
HasFlagValue(words, f, v) ==
  \E i \in 1..(Len(words) - 1) : IsFlag(words[i], f) /\ words[i + 1].text = v

(***************************************************************************)
(* JSON values, as JSON.parse returns them.  A value is [t, s, b, m]:      *)
(* t its type, s the text of a string or the digits of a number, b the     *)
(* value of a boolean, m the members of an object in insertion order.      *)
(***************************************************************************)
JStr(s) == [t |-> "str", s |-> s, b |-> FALSE, m |-> <<>>]
JNum(d) == [t |-> "num", s |-> d, b |-> FALSE, m |-> <<>>]
JBool(b) == [t |-> "bool", s |-> <<>>, b |-> b, m |-> <<>>]
JNull == [t |-> "null", s |-> <<>>, b |-> FALSE, m |-> <<>>]
JObj(m) == [t |-> "obj", s |-> <<>>, b |-> FALSE, m |-> m]
\* A property that is not there.
JUndefined == [t |-> "undefined", s |-> <<>>, b |-> FALSE, m |-> <<>>]

Digits == {"0", "1", "2", "3", "4", "5", "6", "7", "8", "9"}
\* The white space of the JSON grammar (of its four characters, the two of
\* this model's alphabet).
JsonWs == {SP, NL}
\* The white space String.prototype.trim removes.
TrimWs == {SP, NL, NBSP}

K_result == <<"r","e","s","u","l","t">>
K_session_id == <<"s","e","s","s","i","o","n","_","i","d">>
K_is_error == <<"i","s","_","e","r","r","o","r">>
K_type == <<"t","y","p","e">>
W_true == <<"t","r","u","e">>
W_false == <<"f","a","l","s","e">>
W_null == <<"n","u","l","l">>

Fail == [ok |-> FALSE, v |-> JNull, i |-> 0]
Ok(v, i) == [ok |-> TRUE, v |-> v, i |-> i]

RECURSIVE SkipWs(_, _)
SkipWs(s, i) == IF i <= Len(s) /\ s[i] \in JsonWs THEN SkipWs(s, i + 1) ELSE i

\* The characters of a string literal after its opening quote at i - 1.
RECURSIVE ParseChars(_, _, _)
ParseChars(s, i, acc) ==
  IF i > Len(s) THEN Fail
  ELSE IF s[i] = DQ THEN Ok(JStr(acc), i + 1)
  ELSE IF s[i] = NL THEN Fail
  ELSE IF s[i] = BS
    THEN IF i = Len(s) THEN Fail
         ELSE IF s[i + 1] \in {DQ, BS} THEN ParseChars(s, i + 2, Append(acc, s[i + 1]))
         ELSE IF s[i + 1] = "n" THEN ParseChars(s, i + 2, Append(acc, NL))
         ELSE Fail
  ELSE ParseChars(s, i + 1, Append(acc, s[i]))

RECURSIVE ParseDigits(_, _)
ParseDigits(s, i) ==
  IF i <= Len(s) /\ s[i] \in Digits THEN ParseDigits(s, i + 1) ELSE i

ParseWord(s, i, w, v) ==
  IF i + Len(w) - 1 <= Len(s) /\ SubSeq(s, i, i + Len(w) - 1) = w
    THEN Ok(v, i + Len(w))
    ELSE Fail

\* obj[key] = v: a repeated key keeps its first place and takes the last value.
RECURSIVE SetMember(_, _, _)
SetMember(m, k, v) ==
  IF m = <<>> THEN <<[k |-> k, v |-> v]>>
  ELSE IF Head(m).k = k THEN <<[k |-> k, v |-> v]>> \o Tail(m)
  ELSE <<Head(m)>> \o SetMember(Tail(m), k, v)

RECURSIVE ParseValue(_, _)
RECURSIVE ParseMembers(_, _, _)
\* The members of an object from the key at i on, after { or a comma.
ParseMembers(s, i, m) ==
  IF i > Len(s) \/ s[i] # DQ THEN Fail
  ELSE
    LET key == ParseChars(s, i + 1, <<>>) IN
    IF ~key.ok THEN Fail
    ELSE
      LET c == SkipWs(s, key.i) IN
      IF c > Len(s) \/ s[c] # ":" THEN Fail
      ELSE
        LET val == ParseValue(s, SkipWs(s, c + 1)) IN
        IF ~val.ok THEN Fail
        ELSE
          LET j == SkipWs(s, val.i)
              m2 == SetMember(m, key.v.s, val.v)
          IN
          IF j > Len(s) THEN Fail
          ELSE IF s[j] = "}" THEN Ok(JObj(m2), j + 1)
          ELSE IF s[j] = "," THEN ParseMembers(s, SkipWs(s, j + 1), m2)
          ELSE Fail

ParseValue(s, i) ==
  IF i > Len(s) THEN Fail
  ELSE
    CASE s[i] = "{" ->
           LET j == SkipWs(s, i + 1) IN
           IF j <= Len(s) /\ s[j] = "}" THEN Ok(JObj(<<>>), j + 1)
           ELSE ParseMembers(s, j, <<>>)
      [] s[i] = DQ -> ParseChars(s, i + 1, <<>>)
      [] s[i] = "t" -> ParseWord(s, i, W_true, JBool(TRUE))
      [] s[i] = "f" -> ParseWord(s, i, W_false, JBool(FALSE))
      [] s[i] = "n" -> ParseWord(s, i, W_null, JNull)
      [] s[i] = "0" -> Ok(JNum(<<"0">>), i + 1)
      [] s[i] \in Digits \ {"0"} ->
           LET j == ParseDigits(s, i) IN Ok(JNum(SubSeq(s, i, j - 1)), j)
      [] OTHER -> Fail

\* JSON.parse for the texts of this model (objects, strings, true, false,
\* null and unsigned integers): [ok, v], ok FALSE where JSON.parse throws.
JSON_parse(s) ==
  LET r == ParseValue(s, SkipWs(s, 1)) IN
  IF r.ok /\ SkipWs(s, r.i) > Len(s) THEN [ok |-> TRUE, v |-> r.v]
  ELSE [ok |-> FALSE, v |-> JNull]

\* JSON.stringify of a value.
RECURSIVE JSON_stringifyValue(_)
RECURSIVE StringifyMembers(_)
StringifyMembers(m) ==
  IF m = <<>> THEN <<>>
  ELSE JSON_stringify(Head(m).k) \o <<":">> \o JSON_stringifyValue(Head(m).v)
         \o (IF Tail(m) = <<>> THEN <<>> ELSE <<",">> \o StringifyMembers(Tail(m)))

JSON_stringifyValue(v) ==
  CASE v.t = "str" -> JSON_stringify(v.s)
    [] v.t = "num" -> v.s
    [] v.t = "bool" -> IF v.b THEN W_true ELSE W_false
    [] v.t = "obj" -> <<"{">> \o StringifyMembers(v.m) \o <<"}">>
    [] OTHER -> W_null

\* json.key
RECURSIVE Lookup(_, _)
Lookup(m, k) ==
  IF m = <<>> THEN JUndefined
  ELSE IF Head(m).k = k THEN Head(m).v
  ELSE Lookup(Tail(m), k)

Member(json, k) == IF json.t = "obj" THEN Lookup(json.m, k) ELSE JUndefined

\* JavaScript truthiness of a value.
JsTruthy(v) ==
  CASE v.t = "str" -> v.s # <<>>
    [] v.t = "num" -> v.s # <<"0">>
    [] v.t = "bool" -> v.b
    [] v.t = "obj" -> TRUE
    [] OTHER -> FALSE

\* A truthy value where the code expects a text: a text is itself; a value
\* of another type is carried as its JSON text.
AsText(v) == IF v.t = "str" THEN v.s ELSE JSON_stringifyValue(v)

\* String.prototype.trim
RECURSIVE TrimStart(_)
TrimStart(s) ==
  IF s # <<>> /\ Head(s) \in TrimWs THEN TrimStart(Tail(s)) ELSE s

RECURSIVE TrimEnd(_)
TrimEnd(s) ==
  IF s # <<>> /\ s[Len(s)] \in TrimWs THEN TrimEnd(SubSeq(s, 1, Len(s) - 1)) ELSE s

trim(s) == TrimEnd(TrimStart(s))

\* response: json.result || JSON.stringify(json)
ResponseOf(json) ==
  IF JsTruthy(Member(json, K_result))
    THEN AsText(Member(json, K_result))
    ELSE JSON_stringifyValue(json)

\* sessionId: json.session_id || null
SessionIdOf(json) ==
  IF JsTruthy(Member(json, K_session_id))
    THEN Some(AsText(Member(json, K_session_id)))
    ELSE Null

\* isError: json.is_error || false
IsErrorOf(json) == JsTruthy(Member(json, K_is_error))

\* The catch branch: the raw output, trimmed.
RawOutput(stdout) ==
  [response |-> trim(stdout), sessionId |-> Null, isError |-> FALSE]

\* parseClaudeJsonResponse.  JSON.parse("null") returns null, and reading
\* json.type for the log line then throws inside the try: the catch branch.
parseClaudeJsonResponse(stdout) ==
  LET p == JSON_parse(stdout) IN
  IF ~p.ok \/ p.v.t = "null" THEN RawOutput(stdout)
  ELSE [response |-> ResponseOf(p.v),
        sessionId |-> SessionIdOf(p.v),
        isError |-> IsErrorOf(p.v)]

(***************************************************************************)
(* The two operations after the executor has returned.                     *)
(***************************************************************************)
\* executeClaude, from the executor's stdout on: { response, sessionId }.
executeClaudeReturn(out) ==
  LET p == parseClaudeJsonResponse(out) IN
  [response |-> p.response, sessionId |-> p.sessionId]

\* newSessionId || null: the request's identifier is forgotten.
finalSessionId_NoFallback(newSessionId, sessionId) ==
  IF Truthy(newSessionId) THEN newSessionId ELSE Null

\* sessionId || newSessionId || null: the request's identifier comes first.
finalSessionId_RequestFirst(newSessionId, sessionId) ==
  IF Truthy(sessionId) THEN sessionId
  ELSE IF Truthy(newSessionId) THEN newSessionId
  ELSE Null

\* newSessionId || sessionId || null
finalSessionId(newSessionId, sessionId) ==
  IF Truthy(newSessionId) THEN newSessionId
  ELSE IF Truthy(sessionId) THEN sessionId
  ELSE Null

\* A continuation that returns what a start returns.
executeClaudeReplyReturn_AsStart(out, sessionId) ==
  LET p == parseClaudeJsonResponse(out) IN
  [response |-> p.response, sessionId |-> p.sessionId]

\* executeClaudeReply, from the executor's stdout on.
executeClaudeReplyReturn(out, sessionId) ==
  LET p == parseClaudeJsonResponse(out) IN
  [response |-> p.response, sessionId |-> finalSessionId(p.sessionId, sessionId)]

(***************************************************************************)
(* The dispatch layer: ToolResult is [text, isError, meta]: the text of    *)
(* the one content item, whether isError is there (it is only ever true),  *)
(* and _meta.sessionId when _meta is there.                                *)
(***************************************************************************)
CHAT == <<"c","h","a","t">>
CHAT_REPLY == <<"c","h","a","t","-","r","e","p","l","y">>
ERROR_EXECUTING == <<"E","r","r","o","r"," ","e","x","e","c","u","t","i","n","g"," ",
                     "c","l","a","u","d","e",":"," ">>
UNKNOWN_TOOL == <<"U","n","k","n","o","w","n"," ","t","o","o","l",":"," ">>

\* _meta: { sessionId } attached whether or not there is an identifier.
TurnResult_AlwaysMeta(r) ==
  [text |-> r.response,
   isError |-> FALSE,
   meta |-> Some(r.sessionId.val)]

\* handleClaude / handleClaudeReply: the result of a turn.
TurnResult(r) ==
  [text |-> r.response,
   isError |-> FALSE,
   meta |-> IF Truthy(r.sessionId) THEN r.sessionId ELSE Null]

\* A catch branch that reports the failure as an ordinary result.
ErrorResult_Unflagged(message) ==
  [text |-> ERROR_EXECUTING \o message, isError |-> FALSE, meta |-> Null]

\* handleToolCall's catch branch.
ErrorResult(message) ==
  [text |-> ERROR_EXECUTING \o message, isError |-> TRUE, meta |-> Null]

NoResult == [text |-> <<>>, isError |-> FALSE, meta |-> Null]

OptionsOf(args) ==
  [model |-> args.model, systemPrompt |-> args.systemPrompt, cwd |-> args.cwd]

\* The executor called with the command alone.
ExecCall_NoCwd(name, args) ==
  [command |-> IF name = CHAT
                 THEN StartCommand(args.prompt.val, OptionsOf(args))
                 ELSE ReplyCommand(args.prompt.val, args.sessionId, OptionsOf(args)),
   cwd |-> Null]

\* What handleClaude / handleClaudeReply hand to the executor:
\* execFn(command, { cwd: options?.cwd }).
ExecCall(name, args) ==
  [command |-> IF name = CHAT
                 THEN StartCommand(args.prompt.val, OptionsOf(args))
                 ELSE ReplyCommand(args.prompt.val, args.sessionId, OptionsOf(args)),
   cwd |-> args.cwd]

(***************************************************************************)
(* State.                                                                  *)
(*   calls     the bag of tool calls in flight, each suspended at its one  *)
(*             await, the executor's promise                               *)
(*   returned  what the last finished call gave its caller                 *)
(*   issued    handleToolCall calls so far                                 *)
(*   executed  executor invocations so far                                 *)
(*   failed    executor failures so far                                    *)
(*   stdout, parsed, reparsed    an output text and its interpretations    *)
(*   request, handed, shell      a request, what the operation hands to    *)
(*             the executor for it, and what /bin/bash makes of that       *)
(***************************************************************************)
VARIABLES calls, returned, issued, executed, failed,
          stdout, parsed, reparsed,
          request, handed, shell

serverVars == <<calls, returned, issued, executed, failed>>
parseVars == <<stdout, parsed, reparsed>>
buildVars == <<request, handed, shell>>
vars == <<calls, returned, issued, executed, failed, stdout, parsed, reparsed,
          request, handed, shell>>

\* Bounds of the model.
MaxCalls == 3
MaxInFlight == 2
MaxTextLen == 2
MaxRawLen == 2

S1 == <<"s","1">>
S2 == <<"s","2">>
HI == <<"h","i">>
OK_TEXT == <<"o","k">>
OPUS == <<"o","p","u","s">>
BE_BRIEF == <<"b","e"," ","b","r","i","e","f">>
WORK_DIR == <<"/","w">>

NoArgs == [prompt |-> Null, sessionId |-> Null, model |-> Null,
           systemPrompt |-> Null, cwd |-> Null]

\* The requests of the server model: the prompt missing, empty or a text; a
\* continuation with no identifier or one of two; no options (the builder's
\* specification below covers them).
ServerPrompts == {Null, Some(<<>>), Some(HI)}
ServerSessionIds == {Null, Some(S1), Some(S2)}
ServerOptions == {NoOptions}

ArgsOf(prompt, sessionId, options) ==
  [prompt |-> prompt, sessionId |-> sessionId, model |-> options.model,
   systemPrompt |-> options.systemPrompt, cwd |-> options.cwd]

ChatArgs == {ArgsOf(p, Null, o) : p \in ServerPrompts, o \in ServerOptions}
ChatReplyArgs ==
  {ArgsOf(p, x, o) : p \in ServerPrompts, x \in ServerSessionIds, o \in ServerOptions}

\* What the subprocess may print: a full record naming session s2, a record
\* without session_id, one with an empty session_id, and text that is no JSON.
OUT_FULL ==
  JSON_stringifyValue(JObj(<<[k |-> K_type, v |-> JStr(K_result)],
                             [k |-> K_is_error, v |-> JBool(FALSE)],
                             [k |-> K_result, v |-> JStr(OK_TEXT)],
                             [k |-> K_session_id, v |-> JStr(S2)]>>))
OUT_NO_SESSION == JSON_stringifyValue(JObj(<<[k |-> K_result, v |-> JStr(OK_TEXT)]>>))
OUT_EMPTY_SESSION ==
  JSON_stringifyValue(JObj(<<[k |-> K_result, v |-> JStr(OK_TEXT)],
                             [k |-> K_session_id, v |-> JStr(<<>>)]>>))
OUT_PLAIN == <<"o","o","p","s",NL>>
\* The tool reports a logical error: is_error true, with a result text and
\* with an empty one.
BAD_TEXT == <<"b","a","d">>
OUT_TOOL_ERROR ==
  JSON_stringifyValue(JObj(<<[k |-> K_is_error, v |-> JBool(TRUE)],
                             [k |-> K_result, v |-> JStr(BAD_TEXT)],
                             [k |-> K_session_id, v |-> JStr(S2)]>>))
OUT_TOOL_ERROR_EMPTY ==
  JSON_stringifyValue(JObj(<<[k |-> K_is_error, v |-> JBool(TRUE)],
                             [k |-> K_result, v |-> JStr(<<>>)]>>))
ServerOutputs ==
  {OUT_FULL, OUT_NO_SESSION, OUT_EMPTY_SESSION, OUT_PLAIN, OUT_TOOL_ERROR,
   OUT_TOOL_ERROR_EMPTY}

\* The messages of the failures: the executor's (the tool is missing) and
\* the TypeError of reading prompt.length when prompt is undefined.
NOT_FOUND == <<"n","o","t"," ","f","o","u","n","d">>
TYPE_ERROR == <<"C","a","n","n","o","t"," ","r","e","a","d">>
ExecErrors == {NOT_FOUND}

\* Names that are neither tool: another word, the tool's name in another
\* case (=== compares exactly), and the empty name.
UNKNOWN_NAME == <<"n","o","p","e">>
CHAT_CAPITAL == <<"C","h","a","t">>
UnknownNames == {UNKNOWN_NAME, CHAT_CAPITAL, <<>>}

NoReturn == [response |-> <<>>, sessionId |-> Null]

\* What a finished call gave its caller.  kind: "result" (the turn's
\* result), "error" (the error result of handleToolCall's catch), "thrown"
\* (handleToolCall threw).  ret is what the operation returned, result the
\* ToolResult, failure the message of the executor's failure, thrown the
\* message of the error handleToolCall threw.  The rest is the call: its
\* name and arguments, the command it handed to the executor, how many
\* times it invoked the executor and the stdout it was given.
NothingReturned ==
  [kind |-> "none", name |-> <<>>, args |-> NoArgs, turn |-> 0, prev |-> Null,
   command |-> Null, execs |-> 0, out |-> Null, ret |-> NoReturn,
   result |-> NoResult, failure |-> Null, thrown |-> <<>>]

\* A continuation made with the identifier that the turn before it returned
\* is the next turn of that conversation.
Continues(name, args) ==
  /\ name = CHAT_REPLY
  /\ returned.kind = "result"
  /\ Truthy(returned.result.meta)
  /\ args.sessionId = returned.result.meta

\* The place of a call in its conversation, and the identifier the turn
\* before it returned.
TurnOf(name, args) == IF Continues(name, args) THEN returned.turn + 1 ELSE 1
PrevOf(name, args) == IF Continues(name, args) THEN returned.result.meta ELSE Null

\* The call suspended at await execFn(command, { cwd }).
Awaiting(name, args, turn, prev) ==
  [name |-> name, args |-> args,
   command |-> ExecCall(name, args).command,
   cwd |-> ExecCall(name, args).cwd,
   execs |-> 1, turn |-> turn, prev |-> prev]

\* handleToolCall(name, args) for name "chat" or "chat-reply", up to its
\* await.  executeClaude / executeClaudeReply read prompt.length for the
\* log line first: with no prompt that throws, and handleToolCall's catch
\* turns it into an error result.  Otherwise the command is built and the
\* executor is invoked with it.
Dispatch(name, args) ==
  /\ BagCardinality(calls) < MaxInFlight
  /\ issued < MaxCalls
  /\ issued' = issued + 1
  /\ IF ~args.prompt.some
       THEN /\ returned' = [NothingReturned EXCEPT
                              !.kind = "error", !.name = name, !.args = args,
                              !.turn = TurnOf(name, args),
                              !.prev = PrevOf(name, args),
                              !.result = ErrorResult(TYPE_ERROR)]
            /\ UNCHANGED <<calls, executed>>
       ELSE /\ calls' = calls (+) SetToBag({Awaiting(name, args, TurnOf(name, args),
                                                     PrevOf(name, args))})
            /\ executed' = executed + 1
            /\ UNCHANGED returned
  /\ UNCHANGED <<failed, parseVars, buildVars>>

HandleChat == \E args \in ChatArgs : Dispatch(CHAT, args)

HandleChatReply == \E args \in ChatReplyArgs : Dispatch(CHAT_REPLY, args)

\* handleToolCall with any other name: neither branch is taken, and the
\* call throws Unknown tool: <name>.
\* The unknown name falls into the catch branch's shape: an error result.
HandleUnknown_AsErrorResult ==
  \E name \in UnknownNames :
    /\ issued < MaxCalls
    /\ issued' = issued + 1
    /\ returned' = [NothingReturned EXCEPT !.kind = "error", !.name = name,
                                           !.turn = 1,
                                           !.result = ErrorResult(UNKNOWN_TOOL \o name)]
    /\ UNCHANGED <<calls, executed, failed, parseVars, buildVars>>

HandleUnknown ==
  \E name \in UnknownNames :
    /\ issued < MaxCalls
    /\ issued' = issued + 1
    /\ returned' = [NothingReturned EXCEPT !.kind = "thrown", !.name = name,
                                           !.turn = 1,
                                           !.thrown = UNKNOWN_TOOL \o name]
    /\ UNCHANGED <<calls, executed, failed, parseVars, buildVars>>

\* The identifier of the last finished turn kept in a variable of the
\* module and used, when there is one, in place of the call's own.
OperationReturn_LastSession(call, out) ==
  IF call.name = CHAT
    THEN executeClaudeReturn(out)
    ELSE executeClaudeReplyReturn(out, IF returned.result.meta.some
                                         THEN returned.result.meta
                                         ELSE call.args.sessionId)

\* What the operation returns once the executor has resolved with out.
OperationReturn(call, out) ==
  IF call.name = CHAT
    THEN executeClaudeReturn(out)
    ELSE executeClaudeReplyReturn(out, call.args.sessionId)

Finished(call) ==
  [NothingReturned EXCEPT !.name = call.name, !.args = call.args,
                          !.turn = call.turn, !.prev = call.prev,
                          !.command = Some(call.command), !.execs = call.execs]

\* The executor resolves: the suspended call interprets stdout and
\* returns its result.
ExecResolve ==
  \E call \in BagToSet(calls), out \in ServerOutputs :
    /\ returned' = [Finished(call) EXCEPT
                      !.kind = "result", !.out = Some(out),
                      !.ret = OperationReturn(call, out),
                      !.result = TurnResult(OperationReturn(call, out))]
    /\ calls' = calls (-) SetToBag({call})
    /\ UNCHANGED <<issued, executed, failed, parseVars, buildVars>>

\* A rejection answered by invoking the executor once more.
ExecReject_Retry ==
  \E call \in BagToSet(calls), message \in ExecErrors :
    /\ calls' = (calls (-) SetToBag({call}))
                  (+) SetToBag({[call EXCEPT !.execs = call.execs + 1]})
    /\ executed' = executed + 1
    /\ UNCHANGED <<returned, issued, failed, parseVars, buildVars>>

\* The error result given the request's identifier as its _meta.
ExecReject_KeepsSession ==
  \E call \in BagToSet(calls), message \in ExecErrors :
    /\ returned' = [Finished(call) EXCEPT
                      !.kind = "error", !.failure = Some(message),
                      !.result = [ErrorResult(message) EXCEPT
                                    !.meta = call.args.sessionId]]
    /\ calls' = calls (-) SetToBag({call})
    /\ failed' = failed + 1
    /\ UNCHANGED <<issued, executed, parseVars, buildVars>>

\* The executor rejects: the error passes through the operation and the
\* handler to handleToolCall's catch.
ExecReject ==
  \E call \in BagToSet(calls), message \in ExecErrors :
    /\ returned' = [Finished(call) EXCEPT
                      !.kind = "error", !.failure = Some(message),
                      !.result = ErrorResult(message)]
    /\ calls' = calls (-) SetToBag({call})
    /\ failed' = failed + 1
    /\ UNCHANGED <<issued, executed, parseVars, buildVars>>

ServerIdle ==
  /\ calls = EmptyBag
  /\ returned = NothingReturned
  /\ issued = 0
  /\ executed = 0
  /\ failed = 0

ParseIdle == stdout = <<>> /\ parsed = Null /\ reparsed = Null
BuildIdle == request = Null /\ handed = Null /\ shell = Null

Init ==
  /\ ServerIdle
  /\ ParseIdle
  /\ BuildIdle

Next == HandleChat \/ HandleChatReply \/ HandleUnknown \/ ExecResolve \/ ExecReject

Spec == Init /\ [][Next]_vars

(***************************************************************************)
(* The command builder on its own: a request, the executor call the        *)
(* operation makes for it, and the default executor's run of that call.    *)
(***************************************************************************)
\* All texts over an alphabet up to a length.
TextsOver(alphabet, n) == UNION {[1..k -> alphabet] : k \in 0..n}

\* Double quote, single quote, backslash, newline and ordinary characters.
TextAlphabet == {DQ, SQ, BS, NL, "n", "-"}
DASH_C == <<"-","c">>
SAYS_R == <<"x"," ","-","r"," ","s","1">>
\* The prompts: every short text, and two that read like the flags.
BuildPrompts == TextsOver(TextAlphabet, MaxTextLen) \cup {DASH_C, SAYS_R}
BuildSystemPrompts ==
  {Null, Some(<<>>), Some(BE_BRIEF), Some(<<DQ>>), Some(<<SQ>>), Some(<<BS>>),
   Some(<<NL>>), Some(<<"-","r">>)}
\* An identifier is one token; A_C1 has the letters of a flag inside it.
A_C1 == <<"a","-","c","1">>
BuildSessionIds == {Null, Some(<<>>), Some(S1), Some(A_C1)}
BuildModels == {Null, Some(OPUS)}
BuildCwds == {Null, Some(<<>>), Some(WORK_DIR)}

BuildOptions ==
  {[model |-> m, systemPrompt |-> sp, cwd |-> d] :
     m \in BuildModels, sp \in BuildSystemPrompts, d \in BuildCwds}

BuildRequests ==
  {[name |-> CHAT, args |-> ArgsOf(Some(p), Null, o)] :
     p \in BuildPrompts, o \in BuildOptions}
  \cup
  {[name |-> CHAT_REPLY, args |-> ArgsOf(Some(p), x, o)] :
     p \in BuildPrompts, x \in BuildSessionIds, o \in BuildOptions}

\* process.cwd()
PROCESS_CWD == <<"/">>

\* executeClaude / executeClaudeReply up to the executor call.
Build ==
  /\ request.some /\ ~handed.some
  /\ handed' = Some(ExecCall(request.val.name, request.val.args))
  /\ UNCHANGED <<request, shell, serverVars, parseVars>>

\* defaultExecFn: /bin/bash runs the command with its stdin redirected, in
\* options.cwd || process.cwd().
DefaultExec ==
  /\ handed.some /\ ~shell.some
  /\ shell' = Some([cmdline |-> FullCmd(handed.val.command),
                    argv |-> Argv(FullCmd(handed.val.command)),
                    cwd |-> IF Truthy(handed.val.cwd)
                              THEN handed.val.cwd.val
                              ELSE PROCESS_CWD])
  /\ UNCHANGED <<request, handed, serverVars, parseVars>>

InitBuild ==
  /\ request \in {Some(r) : r \in BuildRequests}
  /\ handed = Null
  /\ shell = Null
  /\ ServerIdle
  /\ ParseIdle

NextBuild == Build \/ DefaultExec

SpecBuild == InitBuild /\ [][NextBuild]_vars

(***************************************************************************)
(* The response interpreter on its own: an output text, its                *)
(* interpretation, and the interpretation of that response again.          *)
(***************************************************************************)
RecordResults == {JUndefined, JStr(<<>>), JStr(OK_TEXT), JStr(<<"a",DQ,NL>>)}
RecordSessionIds == {JUndefined, JStr(<<>>), JStr(S2)}
RecordIsErrors == {JUndefined, JBool(FALSE), JBool(TRUE)}

FieldOf(k, v) == IF v.t = "undefined" THEN <<>> ELSE <<[k |-> k, v |-> v]>>

\* A record of the tool's output shape; a field given as undefined is left out.
RecordOf(result, session_id, is_error) ==
  JObj(FieldOf(K_result, result) \o FieldOf(K_session_id, session_id)
         \o FieldOf(K_is_error, is_error))

Records ==
  {RecordOf(r, x, e) : r \in RecordResults, x \in RecordSessionIds, e \in RecordIsErrors}

\* Output texts: the serialized records, bare and with white space around
\* them, and every short text over a few characters.
RawAlphabet == {SP, NL, NBSP, DQ, "a", "5", "{", "}"}
Leads == {<<>>, <<SP>>, <<NBSP>>}
Trails == {<<>>, <<NL>>}
ParseInputs ==
  {a \o JSON_stringifyValue(r) \o b : a \in Leads, r \in Records, b \in Trails}
  \cup TextsOver(RawAlphabet, MaxRawLen)

Interpret ==
  /\ ~parsed.some
  /\ parsed' = Some(parseClaudeJsonResponse(stdout))
  /\ UNCHANGED <<stdout, reparsed, serverVars, buildVars>>

\* The response of an interpretation taken as raw output again.
Reinterpret ==
  /\ parsed.some /\ ~reparsed.some
  /\ reparsed' = Some(parseClaudeJsonResponse(parsed.val.response))
  /\ UNCHANGED <<stdout, parsed, serverVars, buildVars>>

InitParse ==
  /\ stdout \in ParseInputs
  /\ parsed = Null
  /\ reparsed = Null
  /\ ServerIdle
  /\ BuildIdle

NextParse == Interpret \/ Reinterpret

SpecParse == InitParse /\ [][NextParse]_vars

(***************************************************************************)
(* Properties.                                                             *)
(***************************************************************************)

\* C1 (mode selection).  Read as the shell reads it, the command a start
\* hands to the executor has neither the flag -c nor the flag -r; the
\* command of a continuation with no identifier (none, or the empty text)
\* has -c and not -r; the command of a continuation with identifier Y has
\* -r followed by Y, holds the text "-r Y", and has no -c.  A flag is an
\* unquoted word: a prompt or system prompt that reads "-c" stays inside
\* its quoted literal.  Identifiers and model names are single tokens.
C1_ModeSelection ==
  handed.some =>
    LET words == BashWords(handed.val.command)
        name == request.val.name
        sessionId == request.val.args.sessionId
    IN /\ (name = CHAT) => (~HasFlag(words, F_C) /\ ~HasFlag(words, F_R))
       /\ (name = CHAT_REPLY /\ ~Truthy(sessionId)) =>
            (HasFlag(words, F_C) /\ ~HasFlag(words, F_R))
       /\ (name = CHAT_REPLY /\ Truthy(sessionId)) =>
            /\ HasFlagValue(words, F_R, sessionId.val)
            /\ Contains(handed.val.command, F_R \o <<SP>> \o sessionId.val \o <<SP>>)
            /\ ~HasFlag(words, F_C)

\* A continuation by an identifier with "-c" inside it, whose prompt reads "-c".
C1_Witness ==
  /\ handed.some
  /\ request.val.name = CHAT_REPLY
  /\ request.val.args.sessionId = Some(A_C1)
  /\ request.val.args.prompt = Some(DASH_C)

\* C2 (continuation fallback).  A continuation called with identifier X
\* whose output yields no session identifier (no session_id field, an empty
\* one, or output that is no JSON at all) returns sessionId X.
YieldsNoSession(out) ==
  LET p == JSON_parse(out) IN
  ~p.ok \/ ~JsTruthy(Member(p.v, K_session_id))

C2_Case ==
  /\ returned.kind = "result"
  /\ returned.name = CHAT_REPLY
  /\ Truthy(returned.args.sessionId)
  /\ YieldsNoSession(returned.out.val)

C2_ContinuationFallback ==
  C2_Case => returned.ret.sessionId = returned.args.sessionId

\* The continuation of s1 whose subprocess printed plain text.
C2_Witness ==
  /\ C2_Case
  /\ returned.args.sessionId = Some(S1)
  /\ returned.out = Some(OUT_PLAIN)

\* C3 (execution failure at the dispatch boundary).  When the executor
\* fails, handleToolCall returns (it does not throw) a result with isError
\* true whose text contains the failure's message; and once a failure has
\* been returned the dispatcher still takes calls of both operations.
C3_ExecutionFailure ==
  /\ returned.failure.some =>
       /\ returned.kind = "error"
       /\ returned.result.isError
       /\ Contains(returned.result.text, returned.failure.val)
  /\ (failed > 0 /\ issued < MaxCalls /\ BagCardinality(calls) < MaxInFlight) =>
       (ENABLED HandleChat /\ ENABLED HandleChatReply)

\* After an executor failure, a later turn has returned its result.
C3_Witness ==
  /\ failed > 0
  /\ returned.kind = "result"
  /\ Truthy(returned.result.meta)

\* C4 (escaping safety), as claimed.  /bin/bash hands the subprocess the
\* prompt, and the system prompt when there is one, as the one argument
\* after its flag, character for character.
Argc(name, args) ==
  5 + (IF name = CHAT THEN 0 ELSE IF Truthy(args.sessionId) THEN 2 ELSE 1)
    + (IF Truthy(args.model) THEN 2 ELSE 0)
    + (IF Truthy(args.systemPrompt) THEN 2 ELSE 0)

C4_EscapingSafety ==
  shell.some =>
    LET argv == shell.val.argv
        name == request.val.name
        args == request.val.args
    IN /\ Len(argv) = Argc(name, args)
       /\ HasFlagValue(argv, F_P, args.prompt.val)
       /\ Truthy(args.systemPrompt) =>
            HasFlagValue(argv,
                         IF name = CHAT THEN F_SYSTEM_PROMPT ELSE F_APPEND_SYSTEM_PROMPT,
                         args.systemPrompt.val)

\* C5 (round-trip decoding), as claimed.  The serialized text of a record
\* with result, session_id and is_error is interpreted as exactly those
\* three values.
HasAll(r) ==
  /\ Member(r, K_result).t # "undefined"
  /\ Member(r, K_session_id).t # "undefined"
  /\ Member(r, K_is_error).t # "undefined"

C5_RoundTrip ==
  parsed.some =>
    \A r \in Records :
      (HasAll(r) /\ stdout = JSON_stringifyValue(r)) =>
        /\ parsed.val.response = Member(r, K_result).s
        /\ parsed.val.sessionId = Some(Member(r, K_session_id).s)
        /\ parsed.val.isError = Member(r, K_is_error).b

\* C6 (fallback idempotence), as claimed.  A text that fails structured
\* decoding is interpreted as {trim(T), absent, false}, and interpreting
\* that response again gives the same triple.
C6_FallbackIdempotence ==
  (reparsed.some /\ ~JSON_parse(stdout).ok) =>
    /\ parsed.val = [response |-> trim(stdout), sessionId |-> Null, isError |-> FALSE]
    /\ reparsed.val = parsed.val

\* C7 (session continuity).  In a conversation, every turn after the first
\* is a continuation called with the identifier the turn before returned:
\* its command resumes exactly that identifier with -r, and when it
\* succeeds it returns an identifier, whatever its output was.
C7_SessionContinuity ==
  /\ \A call \in BagToSet(calls) :
       call.turn > 1 =>
         HasFlagValue(BashWords(call.command), F_R, call.prev.val)
  /\ (returned.kind = "result" /\ returned.turn > 1) =>
       /\ HasFlagValue(BashWords(returned.command.val), F_R, returned.prev.val)
       /\ Truthy(returned.ret.sessionId)
       /\ Truthy(returned.result.meta)

\* The third turn of a conversation, whose output had no session_id.
C7_Witness ==
  /\ returned.kind = "result"
  /\ returned.turn = 3
  /\ returned.out = Some(OUT_NO_SESSION)
  /\ returned.result.meta = Some(S2)

\* C8 (system-prompt asymmetry).  A start's command has the flag
\* --system-prompt, followed by the quoted text, exactly when a system
\* prompt is given (and is not the empty text), and never has
\* --append-system-prompt; a continuation's command, with or without an
\* identifier, has --append-system-prompt, followed by the quoted text,
\* exactly when one is given, and never has --system-prompt.
C8_SystemPromptAsymmetry ==
  handed.some =>
    LET command == handed.val.command
        words == BashWords(command)
        name == request.val.name
        systemPrompt == request.val.args.systemPrompt
    IN /\ (name = CHAT) =>
            /\ Truthy(systemPrompt) <=> HasFlag(words, F_SYSTEM_PROMPT)
            /\ Truthy(systemPrompt) =>
                 Contains(command, SYSTEM_PROMPT_FLAG \o JSON_stringify(systemPrompt.val))
            /\ ~HasFlag(words, F_APPEND_SYSTEM_PROMPT)
       /\ (name = CHAT_REPLY) =>
            /\ Truthy(systemPrompt) <=> HasFlag(words, F_APPEND_SYSTEM_PROMPT)
            /\ Truthy(systemPrompt) =>
                 Contains(command,
                          APPEND_SYSTEM_PROMPT_FLAG \o JSON_stringify(systemPrompt.val))
            /\ ~HasFlag(words, F_SYSTEM_PROMPT)
            /\ ~Contains(command, SYSTEM_PROMPT_FLAG)

\* A continuation by identifier with a system prompt.
C8_Witness ==
  /\ handed.some
  /\ request.val.name = CHAT_REPLY
  /\ request.val.args.sessionId = Some(S1)
  /\ request.val.args.systemPrompt = Some(BE_BRIEF)

\* C9 (build-time rejection), as claimed.  A request whose prompt is empty
\* or missing is rejected before the executor is invoked: no such call is
\* ever waiting on the executor, and each ends in an error with no
\* executor invocation.
C9_BuildTimeRejection ==
  /\ \A call \in BagToSet(calls) : Truthy(call.args.prompt)
  /\ (returned.name \in {CHAT, CHAT_REPLY} /\ ~Truthy(returned.args.prompt)) =>
       (returned.kind = "error" /\ returned.execs = 0)

\* C10 (single invocation, no retry).  A call has invoked the executor
\* once while it waits on it, at most once when it has finished, whether
\* the executor succeeded or failed, and exactly once when its request was
\* accepted (its prompt is a text); the executor has been invoked at most
\* as many times as handleToolCall has been called.
C10_SingleInvocation ==
  /\ \A call \in BagToSet(calls) : call.execs = 1
  /\ returned.execs <= 1
  /\ (returned.name \in {CHAT, CHAT_REPLY} /\ returned.args.prompt.some) =>
       returned.execs = 1
  /\ executed <= issued
  /\ executed >= BagCardinality(calls) + returned.execs

\* The third call has finished with an executor failure; one call of the
\* three never reached the executor.
C10_Witness ==
  /\ returned.failure.some
  /\ returned.execs = 1
  /\ issued = 3
  /\ executed = 2

\* C11 (a tool-reported error is not escalated), as claimed.  When the
\* subprocess succeeds and its record has is_error true and result text R,
\* the operation returns response R, and the dispatch result has R as its
\* text and no isError; isError is there only on the exception path.
ReportsError(out) ==
  LET p == JSON_parse(out) IN
  /\ p.ok
  /\ p.v.t = "obj"
  /\ Member(p.v, K_is_error) = JBool(TRUE)
  /\ Member(p.v, K_result).t = "str"

C11_ToolErrorNotEscalated ==
  /\ (returned.kind = "result" /\ ReportsError(returned.out.val)) =>
       /\ returned.ret.response = Member(JSON_parse(returned.out.val).v, K_result).s
       /\ returned.result.text = Member(JSON_parse(returned.out.val).v, K_result).s
       /\ ~returned.result.isError
  /\ returned.result.isError => returned.kind = "error"

\* C12 (session metadata).  The result of a successful turn of either
\* operation has _meta.sessionId, equal to the sessionId the operation
\* returned, exactly when that sessionId is a non-empty text, and no _meta
\* otherwise; its one content item is the response text, and it has no
\* isError.
C12_SessionMetadata ==
  returned.kind = "result" =>
    /\ returned.result.text = returned.ret.response
    /\ Truthy(returned.ret.sessionId) => returned.result.meta = returned.ret.sessionId
    /\ ~Truthy(returned.ret.sessionId) => returned.result.meta = Null
    /\ returned.result.meta.some <=> Truthy(returned.ret.sessionId)

\* A start whose output was plain text: the trimmed text and no _meta.
C12_Witness ==
  /\ returned.kind = "result"
  /\ returned.name = CHAT
  /\ returned.out = Some(OUT_PLAIN)
  /\ returned.result.meta = Null
  /\ returned.result.text = trim(OUT_PLAIN)

\* C13 (missing result field), as claimed.  When stdout decodes as a
\* record, the response is the record's result field when the field is
\* there, and the whole record serialized again when it is not; in the
\* second case a non-empty session_id of the record is still the sessionId.
C13_MissingResult ==
  (parsed.some /\ JSON_parse(stdout).ok /\ JSON_parse(stdout).v.t = "obj") =>
    LET json == JSON_parse(stdout).v
        result == Member(json, K_result)
        session_id == Member(json, K_session_id)
    IN /\ result.t = "str" => parsed.val.response = result.s
       /\ result.t = "undefined" =>
            /\ parsed.val.response = JSON_stringifyValue(json)
            /\ JsTruthy(session_id) => parsed.val.sessionId = Some(session_id.s)

\* C14 (command grammar).  Every command handed to the executor is, word
\* for word with single spaces between: claude, then nothing (start), -c
\* (continuation with no identifier) or -r <id>, then -p <quoted prompt>
\* --output-format json, then --model <name> exactly when a model is given
\* (the name as it is, not quoted), then the system-prompt flag of the
\* operation with the quoted text exactly when a system prompt is given.
G_CLAUDE == <<"c","l","a","u","d","e">>
G_OUTPUT_FORMAT == <<"-","-","o","u","t","p","u","t","-","f","o","r","m","a","t">>
G_JSON == <<"j","s","o","n">>

RECURSIVE JoinWords(_)
JoinWords(ws) ==
  IF Len(ws) = 0 THEN <<>>
  ELSE IF Len(ws) = 1 THEN ws[1]
  ELSE ws[1] \o <<SP>> \o JoinWords(Tail(ws))

Grammar(name, args) ==
  <<G_CLAUDE>>
  \o (IF name = CHAT THEN <<>>
      ELSE IF Truthy(args.sessionId) THEN <<F_R, args.sessionId.val>>
      ELSE <<F_C>>)
  \o <<F_P, JSON_stringify(args.prompt.val), G_OUTPUT_FORMAT, G_JSON>>
  \o (IF Truthy(args.model) THEN <<F_MODEL, args.model.val>> ELSE <<>>)
  \o (IF Truthy(args.systemPrompt)
        THEN <<IF name = CHAT THEN F_SYSTEM_PROMPT ELSE F_APPEND_SYSTEM_PROMPT,
               JSON_stringify(args.systemPrompt.val)>>
        ELSE <<>>)

C14_CommandGrammar ==
  handed.some =>
    LET words == BashWords(handed.val.command)
        model == request.val.args.model
    IN /\ handed.val.command = JoinWords(Grammar(request.val.name, request.val.args))
       /\ HasFlagValue(words, G_OUTPUT_FORMAT, G_JSON)
       /\ Truthy(model) <=> HasFlag(words, F_MODEL)
       /\ Truthy(model) => HasFlagValue(words, F_MODEL, model.val)

\* A continuation by identifier with a model and a system prompt.
C14_Witness ==
  /\ handed.some
  /\ request.val.name = CHAT_REPLY
  /\ request.val.args.sessionId = Some(S1)
  /\ request.val.args.model = Some(OPUS)
  /\ request.val.args.systemPrompt = Some(BE_BRIEF)
  /\ request.val.args.prompt = Some(SAYS_R)

\* C15 (unknown operation).  A call of handleToolCall with a name other
\* than chat and chat-reply throws Unknown tool: <name>: it gives no
\* result, error-flagged or other, and its step does not invoke the
\* executor.
UnknownRejected ==
  (returned.kind # "none" /\ returned.name \notin {CHAT, CHAT_REPLY}) =>
    /\ returned.kind = "thrown"
    /\ returned.thrown = UNKNOWN_TOOL \o returned.name
    /\ returned.result = NoResult
    /\ returned.execs = 0

\* The step of a call that ends thrown (it leaves no call waiting).
UnknownStep ==
  (issued' = issued + 1 /\ calls' = calls /\ returned'.kind = "thrown") =>
    executed' = executed

C15_UnknownOperation == []UnknownRejected /\ [][UnknownStep]_vars

\* The tool's name in another case was thrown back while a call of chat is
\* waiting on the executor.
C15_Witness ==
  /\ returned.kind = "thrown"
  /\ returned.name = CHAT_CAPITAL
  /\ calls # EmptyBag
  /\ executed = 1

\* C16 (working directory pass-through).  For both operations the
\* executor is given, as its cwd option, the cwd of the request as it is
\* (none when the request has none), and the default executor runs the
\* subprocess in that directory, or in the directory of the server process
\* when there is none (or it is the empty text).
C16_WorkingDirectory ==
  /\ handed.some => handed.val.cwd = request.val.args.cwd
  /\ shell.some =>
       /\ Truthy(request.val.args.cwd) => shell.val.cwd = request.val.args.cwd.val
       /\ ~Truthy(request.val.args.cwd) => shell.val.cwd = PROCESS_CWD

\* A continuation run in the directory its request names.
C16_Witness ==
  /\ shell.some
  /\ request.val.name = CHAT_REPLY
  /\ request.val.args.cwd = Some(WORK_DIR)
  /\ shell.val.cwd = WORK_DIR

\* C17 (no shared state between concurrent invocations).  Whatever calls
\* were made, are waiting or have finished around it, the command of every
\* call waiting on the executor is the command of its own request, and
\* the command and the { response, sessionId } of a finished call are those
\* of its own request and its own output.
OwnCommand(name, args) ==
  IF name = CHAT
    THEN StartCommand(args.prompt.val, OptionsOf(args))
    ELSE ReplyCommand(args.prompt.val, args.sessionId, OptionsOf(args))

OwnReturn(name, args, out) ==
  LET p == parseClaudeJsonResponse(out) IN
  [response |-> p.response,
   sessionId |-> IF name = CHAT \/ Truthy(p.sessionId) THEN p.sessionId
                 ELSE IF Truthy(args.sessionId) THEN args.sessionId
                 ELSE Null]

C17_NoSharedState ==
  /\ \A call \in BagToSet(calls) : call.command = OwnCommand(call.name, call.args)
  /\ returned.kind = "result" =>
       /\ returned.command = Some(OwnCommand(returned.name, returned.args))
       /\ returned.ret = OwnReturn(returned.name, returned.args, returned.out.val)

\* Of three calls made, a continuation of s1 has returned s1 (its output
\* named no session) while a continue-latest call is waiting on the
\* executor.
C17_Witness ==
  /\ returned.kind = "result"
  /\ returned.name = CHAT_REPLY
  /\ returned.args.sessionId = Some(S1)
  /\ returned.out = Some(OUT_NO_SESSION)
  /\ returned.ret.sessionId = Some(S1)
  /\ issued = 3
  /\ \E call \in BagToSet(calls) :
       call.name = CHAT_REPLY /\ ~Truthy(call.args.sessionId)

\* C18 (identifier precedence in a continuation).  A continuation called
\* with identifier X whose output has a non-empty session_id Z returns
\* sessionId Z, and _meta.sessionId Z, also when Z is not X; it returns X
\* only when Z is X or the output yields no identifier.
OutputSession(out) == Member(JSON_parse(out).v, K_session_id)

C18_Case ==
  /\ returned.kind = "result"
  /\ returned.name = CHAT_REPLY
  /\ Truthy(returned.args.sessionId)

C18_IdentifierPrecedence ==
  C18_Case =>
    /\ ~YieldsNoSession(returned.out.val) =>
         /\ returned.ret.sessionId = Some(OutputSession(returned.out.val).s)
         /\ returned.result.meta = Some(OutputSession(returned.out.val).s)
    /\ returned.ret.sessionId = returned.args.sessionId =>
         \/ YieldsNoSession(returned.out.val)
         \/ OutputSession(returned.out.val).s = returned.args.sessionId.val

\* The continuation of s1 whose output named s2.
C18_Witness ==
  /\ C18_Case
  /\ returned.args.sessionId = Some(S1)
  /\ returned.out = Some(OUT_FULL)
  /\ returned.result.meta = Some(S2)

\* C19 (identifier on a failed continuation).  When chat-reply is called
\* with identifier X and the executor fails, the result is the error text
\* and isError true and nothing else: it has no _meta, so X does not come
\* back to the caller.
C19_Case ==
  /\ returned.failure.some
  /\ returned.name = CHAT_REPLY
  /\ Truthy(returned.args.sessionId)

C19_FailedContinuation ==
  C19_Case =>
    /\ returned.kind = "error"
    /\ returned.result.text = ERROR_EXECUTING \o returned.failure.val
    /\ returned.result.isError
    /\ returned.result.meta = Null
    /\ returned.ret = NoReturn

\* The continuation of s1 whose executor failed.
C19_Witness ==
  /\ C19_Case
  /\ returned.args.sessionId = Some(S1)
  /\ returned.args.prompt = Some(HI)

=============================================================================
